---------------------------- MODULE Spec2Model ----------------------------
(***************************************************************************)
(* Model of src/src/command.c: the framed binary command protocol of the   *)
(* micro-controller (frame reception with resynchronisation and sequence   *)
(* numbers, the command parser, the message encoder and the dispatcher).   *)
(*                                                                         *)
(* Buffers are sequences of bytes (0..255).  A C offset i into a buffer    *)
(* is the element i+1 of the sequence.                                     *)
(***************************************************************************)
EXTENDS Integers, Sequences, FiniteSets, TLC

(***************************************************************************)
(* Program constants (command.c lines 18-29).                              *)
(***************************************************************************)
MESSAGE_MIN == 5
MESSAGE_MAX == 64
MESSAGE_HEADER_SIZE == 2
MESSAGE_TRAILER_SIZE == 3
MESSAGE_POS_LEN == 0
MESSAGE_POS_SEQ == 1
MESSAGE_TRAILER_CRC == 3
MESSAGE_TRAILER_SYNC == 1
MESSAGE_SEQ_MASK == 15
MESSAGE_DEST == 16
MESSAGE_SYNC == 126

(***************************************************************************)
(* Bit operations on naturals, and the C integer widths.                   *)
(***************************************************************************)
\* some bits at a time, from tables built bit by bit
RECURSIVE Bits(_, _, _)
Bits(f, a, b) ==
    IF a = 0 /\ b = 0 THEN 0
    ELSE f[a % 2][b % 2] + 2 * Bits(f, a \div 2, b \div 2)

AndBit == [x \in 0 .. 1 |-> [y \in 0 .. 1 |-> IF x = 1 /\ y = 1 THEN 1 ELSE 0]]
OrBit == [x \in 0 .. 1 |-> [y \in 0 .. 1 |-> IF x = 1 \/ y = 1 THEN 1 ELSE 0]]
XorBit == [x \in 0 .. 1 |-> [y \in 0 .. 1 |-> IF x # y THEN 1 ELSE 0]]

And4 == [x \in 0 .. 15 |-> [y \in 0 .. 15 |-> Bits(AndBit, x, y)]]
Or4 == [x \in 0 .. 15 |-> [y \in 0 .. 15 |-> Bits(OrBit, x, y)]]
Xor8 == [x \in 0 .. 255 |-> [y \in 0 .. 255 |-> Bits(XorBit, x, y)]]

RECURSIVE BitAnd(_, _)
BitAnd(a, b) ==
    IF a = 0 \/ b = 0 THEN 0
    ELSE And4[a % 16][b % 16] + 16 * BitAnd(a \div 16, b \div 16)

RECURSIVE BitOr(_, _)
BitOr(a, b) ==
    IF a = 0 THEN b
    ELSE IF b = 0 THEN a
    ELSE Or4[a % 16][b % 16] + 16 * BitOr(a \div 16, b \div 16)

RECURSIVE BitXor(_, _)
BitXor(a, b) ==
    IF a = 0 THEN b
    ELSE IF b = 0 THEN a
    ELSE Xor8[a % 256][b % 256] + 256 * BitXor(a \div 256, b \div 256)

U8(x) == x % 256
U16(x) == x % 65536

(***************************************************************************)
(* A uint32_t is held as the int32_t with the same bits (-2^31 .. 2^31-1): *)
(* TLC's integers are 32 bits wide.  Shr32(v, k) is the low bits           *)
(* of v >> n for k = 2^n; Shl7Or(v, c) is (v << 7) | c in 32 bits, for c   *)
(* below 128.                                                              *)
(***************************************************************************)
I32Min == -2147483647 - 1
Shr32(v, k) == v \div k
Shl7Or(v, c) ==
    LET low == v % 33554432
        top == IF low >= 16777216 THEN low - 33554432 ELSE low
    IN  top * 128 + c

\* buf[i] for a C offset i
At(buf, i) == buf[i + 1]
\* the bytes buf[from .. to-1]
Slice(buf, from, to) == SubSeq(buf, from + 1, to)

(***************************************************************************)
(* crc16_ccitt (lines 39-53): the generic loop; one byte per step.         *)
(***************************************************************************)
\* data << 8 and crc >> 8 share no bit: their | is their sum
CrcStep(crc, byte) ==
    LET d1 == BitXor(byte, crc % 256)
        data == BitXor(d1, U8(d1 * 16))
    IN  U16(BitXor(BitXor(data * 256 + crc \div 256, data \div 16), data * 8))

RECURSIVE CrcFrom(_, _, _, _)
CrcFrom(crc, buf, i, len) ==
    IF i >= len THEN crc
    ELSE LET next == CrcStep(crc, At(buf, i))
         IN  IF next >= 0 THEN CrcFrom(next, buf, i + 1, len) ELSE -1

crc16_ccitt(buf, len) == CrcFrom(65535, buf, 0, len)

(***************************************************************************)
(* encode_int (lines 56-70): the bytes written for v.  sv = v, as v is     *)
(* held signed.                                                            *)
(***************************************************************************)
\* encode_int with 1L<<5 for 3L<<5 in line 59
encode_int_Below32(v) ==
    LET sv == v
        b0 == 128 + (Shr32(v, 268435456) % 16)
        b1 == 128 + (Shr32(v, 2097152) % 128)
        b2 == 128 + (Shr32(v, 16384) % 128)
        b3 == 128 + (Shr32(v, 128) % 128)
        b4 == v % 128
    IN  IF sv < 32 /\ sv >= -32 THEN <<b4>>
        ELSE IF sv < 12288 /\ sv >= -4096 THEN <<b3, b4>>
        ELSE IF sv < 1572864 /\ sv >= -524288 THEN <<b2, b3, b4>>
        ELSE IF sv < 201326592 /\ sv >= -67108864 THEN <<b1, b2, b3, b4>>
        ELSE <<b0, b1, b2, b3, b4>>

encode_int(v) ==
    LET sv == v
        b0 == 128 + (Shr32(v, 268435456) % 16)
        b1 == 128 + (Shr32(v, 2097152) % 128)
        b2 == 128 + (Shr32(v, 16384) % 128)
        b3 == 128 + (Shr32(v, 128) % 128)
        b4 == v % 128
    IN  IF sv < 96 /\ sv >= -32 THEN <<b4>>
        ELSE IF sv < 12288 /\ sv >= -4096 THEN <<b3, b4>>
        ELSE IF sv < 1572864 /\ sv >= -524288 THEN <<b2, b3, b4>>
        ELSE IF sv < 201326592 /\ sv >= -67108864 THEN <<b1, b2, b3, b4>>
        ELSE <<b0, b1, b2, b3, b4>>

(***************************************************************************)
(* parse_int (lines 73-87): reads a VLQ at offset p of buf.  The result    *)
(* is the value, the new cursor, and oob: whether a byte was read beyond   *)
(* the end of buf (the code has no length limit of its own).               *)
(***************************************************************************)
RECURSIVE ParseIntLoop(_, _, _, _)
ParseIntLoop(buf, p, c, v) ==
    IF c < 128 THEN [v |-> v, p |-> p, oob |-> FALSE]
    ELSE IF p >= Len(buf) THEN [v |-> v, p |-> p, oob |-> TRUE]
    ELSE LET c2 == At(buf, p)
         IN  ParseIntLoop(buf, p + 1, c2, Shl7Or(v, c2 % 128))

\* parse_int without lines 78-79
parse_int_NoSign(buf, p) ==
    IF p >= Len(buf) THEN [v |-> 0, p |-> p, oob |-> TRUE]
    ELSE LET c == At(buf, p)
         IN  ParseIntLoop(buf, p + 1, c, c % 128)

parse_int(buf, p) ==
    IF p >= Len(buf) THEN [v |-> 0, p |-> p, oob |-> TRUE]
    ELSE LET c == At(buf, p)
             v0 == c % 128
             v1 == IF BitAnd(c, 96) = 96 THEN v0 - 128 ELSE v0
         IN  ParseIntLoop(buf, p + 1, c, v1)

(***************************************************************************)
(* The command schema (the read-only tables command_index and              *)
(* command_encoders that the build generates).  A parameter type is named  *)
(* by its PT_ constant; the flag is HF_IN_SHUTDOWN.  The tables hold one   *)
(* entry of each shape the code distinguishes.                             *)
(***************************************************************************)
IntTypes == {"PT_uint32", "PT_int32", "PT_uint16", "PT_int16", "PT_byte"}
\* t >= PT_uint16 among the integer types (line 159)
ShortTypes == {"PT_uint16", "PT_int16", "PT_byte"}

NullParser == [func |-> "NULL", param_types |-> <<>>, flags |-> {}]

\* command_index[cmdid], for cmdid in 0 .. command_index_size-1
command_index ==
    <<NullParser,
      [func |-> "command_status", param_types |-> <<>>,
       flags |-> {"HF_IN_SHUTDOWN"}],
      [func |-> "command_set", param_types |-> <<"PT_uint32">>, flags |-> {}],
      [func |-> "command_write", param_types |-> <<"PT_byte", "PT_buffer">>,
       flags |-> {}],
      [func |-> "command_text", param_types |-> <<"PT_string">>, flags |-> {}],
      [func |-> "command_move", param_types |-> <<"PT_uint16", "PT_int32">>,
       flags |-> {}]>>

command_index_size == Len(command_index)

\* command_encoders[parserid]
command_encoders ==
    [empty |-> [msg_id |-> 0, param_types |-> <<>>, max_size |-> 0],
     is_shutdown |-> [msg_id |-> 2, param_types |-> <<"PT_uint16">>,
                      max_size |-> 4],
     pair |-> [msg_id |-> 3, param_types |-> <<"PT_uint32", "PT_uint32">>,
               max_size |-> 4],
     text |-> [msg_id |-> 4, param_types |-> <<"PT_byte", "PT_string">>,
               max_size |-> 4],
     data |-> [msg_id |-> 5, param_types |-> <<"PT_buffer", "PT_byte">>,
               max_size |-> 4],
     blob |-> [msg_id |-> 6, param_types |-> <<"PT_progmem_buffer">>,
               max_size |-> 3],
     odd |-> [msg_id |-> 7, param_types |-> <<"PT_byte", "PT_float">>,
              max_size |-> 6]]

(***************************************************************************)
(* The shutdown reasons: the static strings passed to shutdown().          *)
(***************************************************************************)
NoReason == "none"
ParserError == "Command parser error"
EncodeError == "Message encode error"
InvalidCommand == "Invalid command"

\* sched_shutdown_reason() is a static string id, sent as %hu (line 94)
ReasonId(reason) ==
    CASE reason = ParserError -> 301
      [] reason = EncodeError -> 302
      [] reason = InvalidCommand -> 303
      [] OTHER -> 0

(***************************************************************************)
(* parsef (lines 91-128).  buf is the frame, p the cursor, maxend the end  *)
(* of the payload.  The result's kind is "skip" (NULL returned after the   *)
(* is_shutdown response), "error" (shutdown("Command parser error")) or    *)
(* "ok" (the cursor after the last parameter, and args).  A buffer's       *)
(* pointer argument is its offset in buf.                                  *)
(***************************************************************************)
RECURSIVE ParseParams(_, _, _, _, _, _)
ParseParams(buf, p, maxend, types, args, oob) ==
    IF types = <<>> THEN [kind |-> "ok", p |-> p, args |-> args, oob |-> oob]
    ELSE IF p > maxend THEN [kind |-> "error", p |-> p, args |-> args, oob |-> oob]
    ELSE LET t == Head(types)
         IN  IF t \in IntTypes
             THEN LET r == parse_int(buf, p)
                  IN  ParseParams(buf, r.p, maxend, Tail(types),
                                  Append(args, r.v), oob \/ r.oob)
             ELSE IF t = "PT_buffer"
             THEN LET len == At(buf, p)
                      p1 == p + 1
                  IN  IF p1 + len > maxend
                      THEN [kind |-> "error", p |-> p1, args |-> args, oob |-> oob]
                      ELSE ParseParams(buf, p1 + len, maxend, Tail(types),
                                       args \o <<len, p1>>, oob)
             ELSE [kind |-> "error", p |-> p, args |-> args, oob |-> oob]

\* parsef without lines 93-96
parsefNoShutdownTest(buf, p, maxend, cp, shut) ==
    ParseParams(buf, p, maxend, cp.param_types, <<>>, FALSE)

parsef(buf, p, maxend, cp, shut) ==
    IF shut /\ "HF_IN_SHUTDOWN" \notin cp.flags
    THEN [kind |-> "skip", p |-> p, args |-> <<>>, oob |-> FALSE]
    ELSE ParseParams(buf, p, maxend, cp.param_types, <<>>, FALSE)

(***************************************************************************)
(* _sendf (lines 132-205).                                                 *)
(***************************************************************************)
\* lines 194-200: the frame around the payload written at buf[2 .. p)
Frame(payload, seq) ==
    LET p == MESSAGE_HEADER_SIZE + Len(payload)
        msglen == U8(p + MESSAGE_TRAILER_SIZE)
        head == <<msglen, seq>> \o payload
        crc == crc16_ccitt(head, p)
    IN  head \o <<crc \div 256, U8(crc), MESSAGE_SYNC>>

Min(a, b) == IF a < b THEN a ELSE b

\* lines 147-189: out is the payload written so far, so p = buf + 2 + Len(out).
\* An argument is [v, s]: v the integer passed (for a buffer, the count),
\* s the bytes of the string or buffer passed (a string without its NUL).
RECURSIVE EncodeParams(_, _, _, _)
EncodeParams(types, args, out, maxend) ==
    LET p == MESSAGE_HEADER_SIZE + Len(out)
    IN  IF types = <<>> THEN [kind |-> "ok", out |-> out]
        ELSE IF p > maxend THEN [kind |-> "error", out |-> out]
        ELSE LET t == Head(types)
                 a == Head(args)
             IN  IF t \in IntTypes
                 THEN LET v == IF t \in ShortTypes THEN a.v % 65536 ELSE a.v
                      IN  EncodeParams(Tail(types), Tail(args),
                                       out \o encode_int(v), maxend)
                 ELSE IF t = "PT_string"
                 THEN LET room == maxend - (p + 1)
                          n == IF room <= 0 THEN 0 ELSE Min(Len(a.s), room)
                      IN  EncodeParams(Tail(types), Tail(args),
                                       out \o <<n>> \o SubSeq(a.s, 1, n), maxend)
                 ELSE IF t \in {"PT_progmem_buffer", "PT_buffer"}
                 THEN LET v == Min(a.v, maxend - p)
                      IN  EncodeParams(Tail(types), Tail(args),
                                       out \o <<U8(v)>> \o SubSeq(a.s, 1, v), maxend)
                 ELSE [kind |-> "error", out |-> out]

\* _sendf without the test of lines 137-138
_sendfNoRoomTest(cp, args, seq, avail) ==
    LET reserved == cp.max_size + MESSAGE_MIN
        maxend == MESSAGE_HEADER_SIZE + cp.max_size
        body == IF cp.max_size = 0 THEN [kind |-> "ok", out |-> <<>>]
                ELSE EncodeParams(cp.param_types, args, <<cp.msg_id>>, maxend)
        frame == Frame(body.out, seq)
    IN  IF body.kind = "error"
        THEN [kind |-> "error", frame |-> <<>>, reserved |-> reserved,
              written |-> MESSAGE_HEADER_SIZE + Len(body.out)]
        ELSE [kind |-> "sent", frame |-> frame, reserved |-> reserved,
              written |-> Len(frame)]

\* The whole call.  avail is the room the transport has for output:
\* console_get_output(n) returns NULL when n > avail.  kind is "dropped"
\* (no buffer), "error" (shutdown("Message encode error")) or "sent"
\* (console_push_output(msglen)); reserved is the size asked for and written
\* the number of bytes stored from buf on.
_sendf(cp, args, seq, avail) ==
    LET reserved == cp.max_size + MESSAGE_MIN
        maxend == MESSAGE_HEADER_SIZE + cp.max_size
        body == IF cp.max_size = 0 THEN [kind |-> "ok", out |-> <<>>]
                ELSE EncodeParams(cp.param_types, args, <<cp.msg_id>>, maxend)
        frame == Frame(body.out, seq)
    IN  IF avail < reserved
        THEN [kind |-> "dropped", frame |-> <<>>, reserved |-> reserved,
              written |-> 0]
        ELSE IF body.kind = "error"
        THEN [kind |-> "error", frame |-> <<>>, reserved |-> reserved,
              written |-> MESSAGE_HEADER_SIZE + Len(body.out)]
        ELSE [kind |-> "sent", frame |-> frame, reserved |-> reserved,
              written |-> Len(frame)]

(***************************************************************************)
(* command_get_handler (lines 214-224): the parser of cmdid; error where   *)
(* the code calls shutdown("Invalid command").                             *)
(***************************************************************************)
\* command_get_handler without the test of line 219
command_get_handler_NoNullTest(cmdid) ==
    IF cmdid >= command_index_size THEN [error |-> TRUE, cp |-> NullParser]
    ELSE [error |-> FALSE, cp |-> command_index[cmdid + 1]]

command_get_handler(cmdid) ==
    IF cmdid >= command_index_size THEN [error |-> TRUE, cp |-> NullParser]
    ELSE LET cp == command_index[cmdid + 1]
         IN  IF cp = NullParser THEN [error |-> TRUE, cp |-> NullParser]
             ELSE [error |-> FALSE, cp |-> cp]

(***************************************************************************)
(* command_get_message (lines 230-289).  buf is the transport's input, ns  *)
(* next_sequence, ss sync_state, csigned whether the build's char is       *)
(* signed, avail the transport's output room.  The result: ret ("frame"    *)
(* or "NULL"), the path taken, the check that failed, pop (the bytes       *)
(* popped), the new ns and ss, and the result of the sendf("") if any.     *)
(***************************************************************************)
\* line 251-252: buf[msglen-3] << 8 is computed on an int, the char's value
\* sign-extended where char is signed, and the result is cut to uint16_t
CharVal(b, csigned) == IF csigned /\ b >= 128 THEN b - 256 ELSE b
\* MsgCrcNotCut: the value before the conversion to uint16_t
MsgCrcNotCut(hi, lo, csigned) == CharVal(hi, csigned) * 256 + lo
MsgCrc(hi, lo, csigned) == U16(CharVal(hi, csigned) * 256 + lo)

\* line 276: memchr(buf, MESSAGE_SYNC, buf_len), as an offset; -1 for NULL
RECURSIVE MemChr(_, _, _)
MemChr(buf, c, i) ==
    IF i >= Len(buf) THEN -1
    ELSE IF At(buf, i) = c THEN i
    ELSE MemChr(buf, c, i + 1)

NoSend == [kind |-> "none", frame |-> <<>>, reserved |-> 0, written |-> 0]

\* line 241, negated: the LEN byte is in range (LenOkUpTo65: the test with
\* its upper limit one too high)
LenOkUpTo65(msglen) == ~(msglen < MESSAGE_MIN \/ msglen > MESSAGE_MAX + 1)
LenOk(msglen) == ~(msglen < MESSAGE_MIN \/ msglen > MESSAGE_MAX)

\* line 258, negated: the frame is the one expected (SeqMatchesAlways: the
\* test left out)
SeqMatchesAlways(msgseq, ns) == TRUE
SeqMatches(msgseq, ns) == ~(msgseq # ns)

\* line 263: the sequence byte after msgseq (NextSeqNoMask: without the
\* mask and the tag)
NextSeqNoMask(msgseq) == msgseq + 1
NextSeq(msgseq) == BitOr(BitAnd(msgseq + 1, MESSAGE_SEQ_MASK), MESSAGE_DEST)

\* lines 274-288 without the test of line 283
NeedSyncNoLatch(buf, ns, ss, avail, check) ==
    LET next_sync == MemChr(buf, MESSAGE_SYNC, 0)
        ss1 == IF next_sync >= 0 THEN ss \ {"CF_NEED_SYNC"} ELSE ss
        pop == IF next_sync >= 0 THEN next_sync + 1 ELSE Len(buf)
    IN  [ret |-> "NULL", path |-> "resync", check |-> check, msglen |-> 0,
         msgseq |-> 0, pop |-> pop, ns |-> ns,
         ss |-> ss1 \cup {"CF_NEED_VALID"},
         send |-> _sendf(command_encoders.empty, <<>>, ns, avail)]

\* lines 274-288 without line 278: NEED_SYNC stays set when a sync is found
NeedSyncKeepsFlag(buf, ns, ss, avail, check) ==
    LET next_sync == MemChr(buf, MESSAGE_SYNC, 0)
        pop == IF next_sync >= 0 THEN next_sync + 1 ELSE Len(buf)
        base == [ret |-> "NULL", path |-> "resync", check |-> check,
                 msglen |-> 0, msgseq |-> 0, pop |-> pop, ns |-> ns]
    IN  IF "CF_NEED_VALID" \in ss
        THEN base @@ [ss |-> ss, send |-> NoSend]
        ELSE base @@ [ss |-> ss \cup {"CF_NEED_VALID"},
                      send |-> _sendf(command_encoders.empty, <<>>, ns, avail)]

\* lines 274-288, entered with sync_state ss
NeedSync(buf, ns, ss, avail, check) ==
    LET next_sync == MemChr(buf, MESSAGE_SYNC, 0)
        ss1 == IF next_sync >= 0 THEN ss \ {"CF_NEED_SYNC"} ELSE ss
        pop == IF next_sync >= 0 THEN next_sync + 1 ELSE Len(buf)
        base == [ret |-> "NULL", path |-> "resync", check |-> check,
                 msglen |-> 0, msgseq |-> 0, pop |-> pop, ns |-> ns]
    IN  IF "CF_NEED_VALID" \in ss1
        THEN base @@ [ss |-> ss1, send |-> NoSend]
        ELSE base @@ [ss |-> ss1 \cup {"CF_NEED_VALID"},
                      send |-> _sendf(command_encoders.empty, <<>>, ns, avail)]

\* the error path without lines 268-272
FrameErrorNoSwallow(buf, ns, ss, avail, check) ==
    NeedSync(buf, ns, ss \cup {"CF_NEED_SYNC"}, avail, check)

\* lines 267-273, then need_sync
FrameError(buf, ns, ss, avail, check) ==
    IF At(buf, 0) = MESSAGE_SYNC
    THEN [ret |-> "NULL", path |-> "swallow", check |-> check, msglen |-> 0,
          msgseq |-> 0, pop |-> 1, ns |-> ns, ss |-> ss, send |-> NoSend]
    ELSE NeedSync(buf, ns, ss \cup {"CF_NEED_SYNC"}, avail, check)

\* lines 256-265 without the console_pop_input of line 260
SeqCheckNoPop(msglen, msgseq, ns, ss, avail) ==
    LET ss1 == ss \ {"CF_NEED_VALID"}
        ns1 == NextSeq(msgseq)
    IN  IF ~SeqMatches(msgseq, ns)
        THEN [ret |-> "NULL", path |-> "seqnak", check |-> "seq",
              msglen |-> msglen, msgseq |-> msgseq, pop |-> 0, ns |-> ns,
              ss |-> ss1, send |-> _sendf(command_encoders.empty, <<>>, ns, avail)]
        ELSE [ret |-> "frame", path |-> "accept", check |-> "none",
              msglen |-> msglen, msgseq |-> msgseq, pop |-> 0, ns |-> ns1,
              ss |-> ss1, send |-> _sendf(command_encoders.empty, <<>>, ns1, avail)]

\* lines 256-265 without the next_sequence update of line 263
SeqCheckNoAdvance(msglen, msgseq, ns, ss, avail) ==
    LET ss1 == ss \ {"CF_NEED_VALID"}
    IN  IF ~SeqMatches(msgseq, ns)
        THEN [ret |-> "NULL", path |-> "seqnak", check |-> "seq",
              msglen |-> msglen, msgseq |-> msgseq, pop |-> msglen, ns |-> ns,
              ss |-> ss1, send |-> _sendf(command_encoders.empty, <<>>, ns, avail)]
        ELSE [ret |-> "frame", path |-> "accept", check |-> "none",
              msglen |-> msglen, msgseq |-> msgseq, pop |-> 0, ns |-> ns,
              ss |-> ss1, send |-> _sendf(command_encoders.empty, <<>>, ns, avail)]

\* lines 256-265: the frame passed the checks
SeqCheck(msglen, msgseq, ns, ss, avail) ==
    LET ss1 == ss \ {"CF_NEED_VALID"}
        ns1 == NextSeq(msgseq)
    IN  IF ~SeqMatches(msgseq, ns)
        THEN [ret |-> "NULL", path |-> "seqnak", check |-> "seq",
              msglen |-> msglen, msgseq |-> msgseq, pop |-> msglen, ns |-> ns,
              ss |-> ss1, send |-> _sendf(command_encoders.empty, <<>>, ns, avail)]
        ELSE [ret |-> "frame", path |-> "accept", check |-> "none",
              msglen |-> msglen, msgseq |-> msgseq, pop |-> 0, ns |-> ns1,
              ss |-> ss1, send |-> _sendf(command_encoders.empty, <<>>, ns1, avail)]

\* line 235: the test that sends the poll to need_sync (SkipToSyncNever: the
\* test left out)
SkipToSyncNever(buf_len, ss) == FALSE
SkipToSync(buf_len, ss) == buf_len > 0 /\ "CF_NEED_SYNC" \in ss

\* lines 235-255: the check that ends the examination of the header and
\* of the frame ("ok": the frame passed them all)
FrameCheck(buf, ss, csigned) ==
    LET buf_len == Len(buf)
    IN  IF SkipToSync(buf_len, ss) THEN "need_sync"
        ELSE IF buf_len < MESSAGE_MIN THEN "short"
        ELSE LET msglen == At(buf, MESSAGE_POS_LEN)
                 msgseq == At(buf, MESSAGE_POS_SEQ)
             IN  IF ~LenOk(msglen) THEN "len"
                 ELSE IF msgseq - BitAnd(msgseq, MESSAGE_SEQ_MASK) # MESSAGE_DEST
                 THEN "dest"
                 ELSE IF buf_len < msglen THEN "partial"
                 ELSE IF At(buf, msglen - MESSAGE_TRAILER_SYNC) # MESSAGE_SYNC
                 THEN "sync"
                 ELSE LET msgcrc == MsgCrc(At(buf, msglen - MESSAGE_TRAILER_CRC),
                                           At(buf, msglen - MESSAGE_TRAILER_CRC + 1),
                                           csigned)
                          crc == crc16_ccitt(buf, msglen - MESSAGE_TRAILER_SIZE)
                      IN  IF crc # msgcrc THEN "crc" ELSE "ok"

\* command_get_message with goto error for the returns of lines 238, 248
command_get_message_NoWait(buf, ns, ss, chk, avail) ==
    CASE chk = "need_sync" -> NeedSync(buf, ns, ss, avail, "none")
      [] chk = "short" /\ buf = <<>> ->
            [ret |-> "NULL", path |-> chk, check |-> "none", msglen |-> 0,
             msgseq |-> 0, pop |-> 0, ns |-> ns, ss |-> ss, send |-> NoSend]
      [] chk = "ok" -> SeqCheck(At(buf, MESSAGE_POS_LEN), At(buf, MESSAGE_POS_SEQ),
                                ns, ss, avail)
      [] OTHER -> FrameError(buf, ns, ss, avail, chk)

\* chk is FrameCheck(buf, ss, csigned)
command_get_message(buf, ns, ss, chk, avail) ==
    CASE chk = "need_sync" -> NeedSync(buf, ns, ss, avail, "none")
      [] chk \in {"short", "partial"} ->
            [ret |-> "NULL", path |-> chk, check |-> "none", msglen |-> 0,
             msgseq |-> 0, pop |-> 0, ns |-> ns, ss |-> ss, send |-> NoSend]
      [] chk = "ok" -> SeqCheck(At(buf, MESSAGE_POS_LEN), At(buf, MESSAGE_POS_SEQ),
                                ns, ss, avail)
      [] OTHER -> FrameError(buf, ns, ss, avail, chk)

(***************************************************************************)
(* The loop of command_task (lines 302-311) from cursor p on.  shut and    *)
(* reason are sched_is_shutdown() and sched_shutdown_reason(), seq the     *)
(* next_sequence stamped on a response.  The result: the handlers invoked  *)
(* in order (the command id, its offset in the frame, the arguments, the   *)
(* cursor after them), the is_shutdown response if one was sent, stop: the *)
(* reason of the shutdown() that ended the loop (NoReason when it ran to   *)
(* its end or to the break), and stop_at: the offset of the command at     *)
(* which a shutdown() or the break ended it (-1: it ran to its end).       *)
(***************************************************************************)
RECURSIVE Dispatch(_, _, _, _, _, _, _, _)
Dispatch(buf, p, msgend, shut, reason, seq, avail, handled) ==
    IF ~(p < msgend)
    THEN [handled |-> handled, send |-> NoSend, stop |-> NoReason,
          skip |-> FALSE, stop_at |-> -1, oob |-> FALSE]
    ELSE LET cmdid == At(buf, p)
             h == command_get_handler(cmdid)
             cp == h.cp
             r == parsef(buf, p + 1, msgend, cp, shut)
         IN  IF h.error
             THEN [handled |-> handled, send |-> NoSend,
                   stop |-> InvalidCommand, skip |-> FALSE, stop_at |-> p,
                   oob |-> FALSE]
             ELSE IF r.kind = "skip"
             THEN LET s == _sendf(command_encoders.is_shutdown,
                                  <<[v |-> ReasonId(reason), s |-> <<>>]>>, seq,
                                  avail)
                  IN  [handled |-> handled, send |-> s,
                       stop |-> IF s.kind = "error" THEN EncodeError ELSE NoReason,
                       skip |-> TRUE, stop_at |-> p, oob |-> FALSE]
             ELSE IF r.kind = "error"
             THEN [handled |-> handled, send |-> NoSend, stop |-> ParserError,
                   skip |-> FALSE, stop_at |-> p, oob |-> r.oob]
             ELSE LET rest == Dispatch(buf, r.p, msgend, shut, reason, seq, avail,
                                       Append(handled,
                                              [cmd |-> cmdid, at |-> p,
                                               func |-> cp.func, args |-> r.args,
                                               next |-> r.p]))
                  IN  [rest EXCEPT !.oob = @ \/ r.oob]

(***************************************************************************)
(* The state.  next_sequence (line 31) and sync_state (line 232) are the   *)
(* module's own; input is the transport's receive buffer as                *)
(* console_get_input shows it; is_shutdown and shutdown_reason are the     *)
(* scheduler's shutdown state; char_signed is a property of the build.     *)
(* last records what the most recent command_task did, acc_seq the SEQ of  *)
(* the frame most recently returned to the dispatcher (-1: none yet) and   *)
(* fail_naks the NAKs the failure path has committed since the last frame  *)
(* that passed the checks.  send_call is a call of sendf by a handler or   *)
(* task (the encoder and the arguments) and send_result what it did.       *)
(***************************************************************************)
VARIABLES input, next_sequence, sync_state, is_shutdown, shutdown_reason,
          char_signed, last, acc_seq, fail_naks, send_call, send_result

vars == <<input, next_sequence, sync_state, is_shutdown, shutdown_reason,
          char_signed, last, acc_seq, fail_naks, send_call, send_result>>

\* Bound: the host appends only while at most MaxBacklog bytes wait in the
\* input.
MaxBacklog == 1

\* the output room the transport may have when a poll or a send starts:
\* none, one empty frame, or enough for every response
OutRooms == {0, MESSAGE_MIN, 2 * MESSAGE_MAX}

(***************************************************************************)
(* What the host may write.                                                *)
(***************************************************************************)
\* n bytes 1, 2, 3, ... as a command's data
Fill(n) == [i \in 1 .. n |-> i]

Payloads ==
    { <<>>,
      <<1>>,                       \* status
      <<2, 42>>,                   \* set 42
      <<2, 5, 1>>,                 \* set 5; status
      <<1, 2, 42>>,                \* status; set 42
      <<1, 9, 1>>,                 \* status; no command 9; status
      <<1, 0, 1>>,                 \* status; the null entry; status
      <<2>>,                       \* set, its parameter at the payload's end
      <<2, 128>>,                  \* set, its VLQ running past the end
      <<5, 128>>,                  \* move, its first VLQ running past the end
      <<3, 1, 2, 126, 7>>,         \* write 1, a buffer holding 0x7E
      <<3, 1, 5, 9>>,              \* write, its buffer longer than the payload
      <<4, 0>> }                   \* text: a type parsef does not know

\* a payload of 59 bytes (LEN 64) and one of 60 (LEN 65)
BigPayloads == { <<3, 1, 56>> \o Fill(56), <<3, 1, 57>> \o Fill(57) }

Seqs == 0 .. MESSAGE_SEQ_MASK

\* the frames the host builds of them, for each sequence number
HostFrame == [p \in Payloads \cup BigPayloads, n \in Seqs |->
                 Frame(p, MESSAGE_DEST + n)]

Put(buf, i, b) == [buf EXCEPT ![i + 1] = b]

\* frames that fail one check each, and loose bytes
BadFrames ==
    [n \in Seqs |->
        LET f == HostFrame[<<2, 42>>, n]
        IN  { Put(f, Len(f) - 2, 255 - At(f, Len(f) - 2)),        \* CRC
              Frame(<<1>>, 2 * MESSAGE_DEST + n),                \* SEQ tag
              Put(f, Len(f) - 1, 0),                             \* sync
              Put(f, 0, MESSAGE_MIN - 1),                        \* LEN 4
              <<MESSAGE_SYNC>> \o HostFrame[<<1>>, n],           \* sync first
              <<MESSAGE_SYNC>>, <<255, 255>>,
              SubSeq(f, 1, 2), SubSeq(f, 3, Len(f)),             \* in two parts
              SubSeq(f, 1, Len(f) - 1) }]                        \* cut short

Nibble(seq) == seq % (MESSAGE_SEQ_MASK + 1)

\* the frames the host repeats: the one it sent before
Repeated == { <<>>, <<2, 42>> }

\* the host numbers a frame as expected, or repeats the previous one
HostChunks(ns) ==
    { HostFrame[p, Nibble(ns)] : p \in Payloads \cup BigPayloads }
    \cup { HostFrame[p, Nibble(ns + MESSAGE_SEQ_MASK)] : p \in Repeated }
    \cup BadFrames[Nibble(ns)]

NoCall == [enc |-> "none", args |-> <<>>]

LastNone ==
    [path |-> "none", check |-> "none", ret |-> "NULL", msglen |-> 0,
     msgseq |-> 0, popped |-> 0, ns_before |-> 0, ss_before |-> {},
     shut_before |-> FALSE, avail |-> 0, frame |-> <<>>,
     sends |-> <<>>, handled |-> <<>>, stop |-> NoReason, skip |-> FALSE,
     stop_at |-> -1, prev_acc |-> -1, oob |-> FALSE]

Init ==
    /\ input = <<>>
    /\ next_sequence = MESSAGE_DEST
    /\ sync_state = {}
    /\ is_shutdown = FALSE
    /\ shutdown_reason = NoReason
    /\ char_signed \in BOOLEAN
    /\ last = LastNone
    /\ acc_seq = -1
    /\ fail_naks = 0
    /\ send_call = NoCall
    /\ send_result = NoSend

\* The serial interrupt appends received bytes between two polls.
HostWrite ==
    /\ Len(input) <= MaxBacklog
    /\ \E c \in HostChunks(next_sequence) : input' = input \o c
    /\ last' = LastNone
    /\ UNCHANGED <<next_sequence, sync_state, is_shutdown, shutdown_reason,
                   char_signed, acc_seq, fail_naks, send_call, send_result>>

Sent(s) == IF s.kind = "none" THEN <<>> ELSE <<s>>
Used(s) == IF s.kind = "sent" THEN s.written ELSE 0

(***************************************************************************)
(* command_task (lines 293-314), one poll.  shutdown() does not return:    *)
(* the poll ends there, with the frame not popped.                         *)
(***************************************************************************)
\* lines 297-313 without the console_pop_input of line 312
TaskResultNoPop(m, d) ==
    IF m.ret = "NULL"
    THEN [m |-> m, pop |-> m.pop, sends |-> Sent(m.send), handled |-> <<>>,
          stop |-> NoReason, skip |-> FALSE, stop_at |-> -1, oob |-> FALSE]
    ELSE [m |-> m, pop |-> 0,
          sends |-> Sent(m.send) \o Sent(d.send), handled |-> d.handled,
          stop |-> d.stop, skip |-> d.skip, stop_at |-> d.stop_at,
          oob |-> d.oob]

\* lines 297-313: the frame m.ret is dispatched (d) and popped
TaskResult(m, d) ==
    IF m.ret = "NULL"
    THEN [m |-> m, pop |-> m.pop, sends |-> Sent(m.send), handled |-> <<>>,
          stop |-> NoReason, skip |-> FALSE, stop_at |-> -1, oob |-> FALSE]
    ELSE [m |-> m, pop |-> IF d.stop = NoReason THEN m.msglen ELSE 0,
          sends |-> Sent(m.send) \o Sent(d.send), handled |-> d.handled,
          stop |-> d.stop, skip |-> d.skip, stop_at |-> d.stop_at,
          oob |-> d.oob]

\* the one element of a singleton: its value, computed once
The(S) == CHOOSE x \in S : TRUE

command_task(buf, ns, ss, shut, reason, chk, avail) ==
    The({ The({ TaskResult(m, d) :
                d \in { Dispatch(buf, MESSAGE_HEADER_SIZE,
                                 m.msglen - MESSAGE_TRAILER_SIZE, shut, reason,
                                 m.ns, avail - Used(m.send), <<>>) } }) :
          m \in { command_get_message(buf, ns, ss, chk, avail) } })

CommandTask ==
    \E chk \in {FrameCheck(input, sync_state, char_signed)} :
    \E avail \in OutRooms :
    \E r \in {command_task(input, next_sequence, sync_state, is_shutdown,
                           shutdown_reason, chk, avail)} :
      LET m == r.m
          valid == m.path \in {"accept", "seqnak"}
          naks == IF m.path = "resync" /\ m.send.kind = "sent" THEN 1 ELSE 0
      IN  /\ input' = SubSeq(input, r.pop + 1, Len(input))
          /\ next_sequence' = m.ns
          /\ sync_state' = m.ss
          /\ is_shutdown' = (is_shutdown \/ r.stop # NoReason)
          /\ shutdown_reason' = IF r.stop # NoReason THEN r.stop
                                ELSE shutdown_reason
          /\ acc_seq' = IF m.ret = "frame" THEN m.msgseq ELSE acc_seq
          /\ fail_naks' = IF valid THEN 0 ELSE Min(fail_naks + naks, 2)
          /\ last' = [path |-> m.path, check |-> m.check, ret |-> m.ret,
                      msglen |-> m.msglen, msgseq |-> m.msgseq,
                      popped |-> r.pop, ns_before |-> next_sequence,
                      ss_before |-> sync_state,
                      shut_before |-> is_shutdown, avail |-> avail,
                      frame |-> IF m.ret = "frame"
                                THEN SubSeq(input, 1, m.msglen) ELSE <<>>,
                      sends |-> r.sends, handled |-> r.handled,
                      stop |-> r.stop, skip |-> r.skip, stop_at |-> r.stop_at,
                      prev_acc |-> acc_seq, oob |-> r.oob]
          /\ UNCHANGED <<char_signed, send_call, send_result>>

Next == HostWrite \/ CommandTask

Spec == Init /\ [][Next]_vars

(***************************************************************************)
(* The frame round trip: the input holds one frame built as _sendf builds  *)
(* it (lines 194-200) around any payload, with any sequence number, and    *)
(* next_sequence expects it; command_task is applied.                      *)
(***************************************************************************)
MESSAGE_PAYLOAD_MAX == MESSAGE_MAX - MESSAGE_MIN

RTPayloads ==
    Payloads
    \cup { Fill(k) : k \in 0 .. MESSAGE_PAYLOAD_MAX }
    \cup { [i \in 1 .. k |-> MESSAGE_SYNC] : k \in {1, 2, MESSAGE_PAYLOAD_MAX} }
    \cup { [i \in 1 .. k |-> 256 - i] : k \in {1, 3, MESSAGE_PAYLOAD_MAX} }

RTFrame == [p \in RTPayloads, n \in Seqs |-> Frame(p, MESSAGE_DEST + n)]

InitFrame ==
    /\ \E p \in RTPayloads, n \in Seqs :
          /\ input = RTFrame[p, n]
          /\ next_sequence = MESSAGE_DEST + n
    /\ sync_state \in {{}, {"CF_NEED_VALID"}}
    /\ is_shutdown = FALSE
    /\ shutdown_reason = NoReason
    /\ char_signed \in BOOLEAN
    /\ last = LastNone
    /\ acc_seq = -1
    /\ fail_naks = 0
    /\ send_call = NoCall
    /\ send_result = NoSend

SpecFrame == InitFrame /\ [][CommandTask]_vars

(***************************************************************************)
(* The encoder alone: a task calls sendf with one of the encoders and      *)
(* arguments of its parameters' types.                                     *)
(***************************************************************************)
Ints == {0, 95, 96, 12288, 65535, 2147483647, I32Min, -1}
Texts == {<<>>, <<104, 105>>, <<97, 98, 99, 100, 101, 102>>}

ArgsOf(t) ==
    IF t \in IntTypes \/ t = "PT_float"
    THEN { [v |-> i, s |-> <<>>] : i \in Ints }
    ELSE { [v |-> Len(x), s |-> x] : x \in Texts }

RECURSIVE ArgLists(_)
ArgLists(types) ==
    IF types = <<>> THEN {<<>>}
    ELSE { <<a>> \o rest : a \in ArgsOf(Head(types)), rest \in ArgLists(Tail(types)) }

CallsOf(e) ==
    { [enc |-> e, args |-> a] : a \in ArgLists(command_encoders[e].param_types) }

Calls == UNION { CallsOf(e) : e \in DOMAIN command_encoders }

InitSend ==
    /\ input = <<>>
    /\ next_sequence \in {MESSAGE_DEST + n : n \in Seqs}
    /\ sync_state = {}
    /\ is_shutdown = FALSE
    /\ shutdown_reason = NoReason
    /\ char_signed \in BOOLEAN
    /\ last = LastNone
    /\ acc_seq = -1
    /\ fail_naks = 0
    /\ send_call \in Calls
    /\ send_result = NoSend

\* One call of _sendf; shutdown("Message encode error") on its error path.
Sendf ==
    /\ send_call # NoCall
    /\ send_result = NoSend
    /\ \E avail \in OutRooms :
       \E s \in {_sendf(command_encoders[send_call.enc], send_call.args,
                        next_sequence, avail)} :
          /\ send_result' = s
          /\ is_shutdown' = (is_shutdown \/ s.kind = "error")
          /\ shutdown_reason' = IF s.kind = "error" THEN EncodeError
                                ELSE shutdown_reason
    /\ UNCHANGED <<input, next_sequence, sync_state, char_signed, last, acc_seq,
                   fail_naks, send_call>>

SpecSend == InitSend /\ [][Sendf]_vars

(***************************************************************************)
(* A backlog: the host has written up to MaxFrames whole frames, numbered  *)
(* from next_sequence on, before the task runs; command_task is then       *)
(* called again and again.  send_call keeps the number of frames written   *)
(* and the first sequence byte.                                            *)
(***************************************************************************)
MaxFrames == 3

DrainPayloads == { <<1>>, <<2, 5, 1>>, <<1, 9, 1>>, <<3, 1, 2, 126, 7>> }

RECURSIVE BacklogFrames(_, _)
BacklogFrames(payloads, seq) ==
    IF payloads = <<>> THEN <<>>
    ELSE Frame(Head(payloads), seq)
            \o BacklogFrames(Tail(payloads), NextSeq(seq))

InitDrain ==
    /\ \E k \in 1 .. MaxFrames :
       \E ps \in [1 .. k -> DrainPayloads] :
       \E n \in {0, MESSAGE_SEQ_MASK - 1} :
          /\ input = BacklogFrames(ps, MESSAGE_DEST + n)
          /\ next_sequence = MESSAGE_DEST + n
          /\ send_call = [enc |-> "backlog",
                          args |-> <<[v |-> k, s |-> <<>>],
                                     [v |-> MESSAGE_DEST + n, s |-> <<>>]>>]
    /\ sync_state = {}
    /\ is_shutdown = FALSE
    /\ shutdown_reason = NoReason
    /\ char_signed \in BOOLEAN
    /\ last = LastNone
    /\ acc_seq = -1
    /\ fail_naks = 0
    /\ send_result = NoSend

SpecDrain == InitDrain /\ [][CommandTask]_vars

(***************************************************************************)
(* Retransmission: the host did not see its frame acknowledged and keeps   *)
(* writing copies of it, each with the sequence number the device expects  *)
(* at the start.  The device starts in any state command_get_message can   *)
(* leave behind (lines 274-288 set NEED_VALID whenever NEED_SYNC stays     *)
(* set), with bytes of a damaged transmission still in the input.          *)
(* send_call keeps the frame the host repeats.                             *)
(***************************************************************************)
\* the receive buffer: it holds a full frame and a copy more
MaxInput == 72

RetryPayloads == { <<>>, <<2, 42>>, <<1, 9, 1>>, <<3, 1, 2, 126, 7>> }

\* what a damaged transmission leaves in the input
Leftovers(n) ==
    LET f == Frame(<<2, 42>>, MESSAGE_DEST + n)
    IN  { <<>>,
          Put(f, Len(f) - 2, 255 - At(f, Len(f) - 2)),        \* CRC
          Frame(<<1>>, 2 * MESSAGE_DEST + n),                \* SEQ tag
          Put(f, Len(f) - 1, 0),                             \* sync
          Put(f, 0, MESSAGE_MIN - 1),                        \* LEN 4
          <<MESSAGE_SYNC>>, <<MESSAGE_SYNC, MESSAGE_SYNC, 3>>,
          <<255, 255>>,
          <<MESSAGE_MAX, MESSAGE_DEST + n>>,                 \* waits for 64
          SubSeq(f, 1, 2), SubSeq(f, 3, Len(f)),             \* in two parts
          SubSeq(f, 1, Len(f) - 1) }                         \* cut short

SyncStates == { {}, {"CF_NEED_VALID"}, {"CF_NEED_SYNC", "CF_NEED_VALID"} }

InitRetry ==
    /\ \E n \in {0, MESSAGE_SEQ_MASK} :
          /\ next_sequence = MESSAGE_DEST + n
          /\ input \in Leftovers(n)
          /\ \E p \in RetryPayloads :
                send_call = [enc |-> "retransmit",
                             args |-> <<[v |-> MESSAGE_DEST + n,
                                         s |-> Frame(p, MESSAGE_DEST + n)]>>]
    /\ sync_state \in SyncStates
    /\ is_shutdown \in BOOLEAN
    /\ shutdown_reason = IF is_shutdown THEN InvalidCommand ELSE NoReason
    /\ char_signed \in BOOLEAN
    /\ last = LastNone
    /\ acc_seq = -1
    /\ fail_naks = 0
    /\ send_result = NoSend

\* The serial interrupt appends one more copy of the host's frame.
HostRetransmit ==
    /\ Len(input) + Len(send_call.args[1].s) <= MaxInput
    /\ input' = input \o send_call.args[1].s
    /\ last' = LastNone
    /\ UNCHANGED <<next_sequence, sync_state, is_shutdown, shutdown_reason,
                   char_signed, acc_seq, fail_naks, send_call, send_result>>

\* The host keeps writing while the buffer has room, and the scheduler keeps
\* running command_task.  A poll is possible in every state and records its
\* output room in last, so <<CommandTask>>_vars is enabled everywhere and
\* WF_vars(CommandTask) is the same as []<><<CommandTask>>_vars, the form
\* written here.
SpecRetry ==
    /\ InitRetry
    /\ [][HostRetransmit \/ CommandTask]_vars
    /\ WF_vars(HostRetransmit)
    /\ []<><<CommandTask>>_vars

(***************************************************************************)
(* The VLQ codec alone: encode_int writes a value at an offset of a        *)
(* buffer that holds other bytes before and after it, then parse_int       *)
(* reads at that offset.  send_call holds the value and the bytes around   *)
(* it, input is the buffer, send_result what each function returned.       *)
(***************************************************************************)
RECURSIVE Pow2(_)
Pow2(k) == IF k = 0 THEN 1 ELSE 2 * Pow2(k - 1)

\* the values passed: the limits of each encoded size, the powers of two
\* and the small values, each as the int32_t with the uint32_t's bits
VlqValues ==
    { 0, 31, 32, 2147483647, I32Min, I32Min + 1, -1 }
    \cup { Pow2(k) + d : k \in 0 .. 30, d \in {-1, 0} }
    \cup { -Pow2(k) + d : k \in 0 .. 30, d \in {-1, 0, 1} }
    \cup { 3 * Pow2(k) + d : k \in {5, 12, 19, 26}, d \in {-1, 0, 1} }
    \cup (-160 .. 160)

VlqAround == { <<>>, <<255>>, <<MESSAGE_SYNC>>, <<255, 0>> }

InitVlq ==
    /\ input = <<>>
    /\ next_sequence = MESSAGE_DEST
    /\ sync_state = {}
    /\ is_shutdown = FALSE
    /\ shutdown_reason = NoReason
    /\ char_signed \in BOOLEAN
    /\ last = LastNone
    /\ acc_seq = -1
    /\ fail_naks = 0
    /\ \E v \in VlqValues, before \in {<<>>, <<255>>}, after \in VlqAround :
          send_call = [enc |-> "vlq",
                       args |-> <<[v |-> v, s |-> before], [v |-> 0, s |-> after]>>]
    /\ send_result = NoSend

\* p = encode_int(p, v) at p = buf + Len(before)
EncodeInt ==
    /\ send_call.enc = "vlq"
    /\ send_result = NoSend
    /\ \E bytes \in {encode_int(send_call.args[1].v)} :
          /\ input' = send_call.args[1].s \o bytes \o send_call.args[2].s
          /\ send_result' = [kind |-> "encoded", p |-> Len(send_call.args[1].s),
                             written |-> Len(bytes)]
    /\ UNCHANGED <<next_sequence, sync_state, is_shutdown, shutdown_reason,
                   char_signed, last, acc_seq, fail_naks, send_call>>

\* v = parse_int(&p) at the same p
ParseInt ==
    /\ send_result.kind = "encoded"
    /\ \E r \in {parse_int(input, send_result.p)} :
          send_result' = [kind |-> "parsed", p |-> send_result.p,
                          written |-> send_result.written, v |-> r.v,
                          end |-> r.p, oob |-> r.oob]
    /\ UNCHANGED <<input, next_sequence, sync_state, is_shutdown, shutdown_reason,
                   char_signed, last, acc_seq, fail_naks, send_call>>

SpecVlq == InitVlq /\ [][EncodeInt \/ ParseInt]_vars

(***************************************************************************)
(* The claims.  A poll is a CommandTask step; last describes it until the  *)
(* host writes again.                                                      *)
(***************************************************************************)
\* f is a whole frame as the wire format defines it
WireOK(f) ==
    /\ Len(f) >= 5
    /\ f[1] = Len(f)
    /\ f[1] <= 64
    /\ f[2] \div 16 = 1
    /\ f[Len(f)] = 126
    /\ f[Len(f) - 2] * 256 + f[Len(f) - 1] = crc16_ccitt(f, Len(f) - 3)

\* the input starts with a whole well-formed frame
HeadFrameOK(buf) ==
    /\ Len(buf) >= 5
    /\ buf[1] >= 5
    /\ buf[1] <= Len(buf)
    /\ WireOK(SubSeq(buf, 1, buf[1]))

\* the empty-payload frame stamped seq
EmptyFrame(seq) ==
    LET c == crc16_ccitt(<<5, seq>>, 2)
    IN  <<5, seq, c \div 256, c % 256, 126>>

\* the step is a poll
Poll == last'.path # "none"

\* C1: a handler is invoked only for commands of a frame that passed every
\* validity check and whose SEQ equalled next_sequence when it was read; the
\* sequence numbers of successive frames handed to the dispatcher are
\* consecutive modulo 16; within a frame the handlers run in the order of
\* their commands in the payload.
C1_DispatchOrder ==
    /\ last.handled # <<>> => last.ret = "frame"
    /\ last.ret = "frame" =>
          /\ WireOK(last.frame)
          /\ last.frame[2] = last.ns_before
          /\ last.prev_acc # -1 =>
                last.frame[2] % 16 = ((last.prev_acc % 16) + 1) % 16
    /\ \A i \in 1 .. Len(last.handled) :
          LET h == last.handled[i]
          IN  /\ h.at >= 2
              /\ h.at < last.frame[1] - 3
              /\ h.cmd = last.frame[h.at + 1]
              /\ i > 1 => last.handled[i - 1].at < h.at

\* two handlers ran for the frame numbered 0 that followed the frame numbered 15
C1_Witness ==
    /\ Len(last.handled) = 2
    /\ last.prev_acc = 31
    /\ last.frame[2] = 16

\* C2: next_sequence changes only when a poll reads a well-formed frame whose
\* SEQ equals it; it then becomes 0x10 | ((SEQ + 1) & 0x0F) and a frame
\* committed in that poll carries the new value; every other step leaves it
\* unchanged; always (next_sequence & 0xF0) = 0x10.
C2_Step ==
    (next_sequence' # next_sequence \/ last'.path = "accept"
       \/ (Poll /\ "CF_NEED_SYNC" \notin sync_state /\ HeadFrameOK(input)
             /\ input[2] = next_sequence)) =>
       /\ Poll
       /\ "CF_NEED_SYNC" \notin sync_state
       /\ HeadFrameOK(input)
       /\ input[2] = next_sequence
       /\ next_sequence' = 16 + ((input[2] + 1) % 16)
       /\ \A i \in 1 .. Len(last'.sends) :
             last'.sends[i].kind = "sent" =>
                last'.sends[i].frame[2] = next_sequence'

C2_NextSequence == [](next_sequence \div 16 = 1) /\ [][C2_Step]_vars

\* the frame numbered 15 was accepted and acknowledged with 0x10
C2_Witness ==
    /\ last.path = "accept"
    /\ last.ns_before = 31
    /\ next_sequence = 16
    /\ Len(last.sends) >= 1
    /\ last.sends[1].kind = "sent"
    /\ last.sends[1].frame = EmptyFrame(16)

\* C3: a well-formed frame whose SEQ differs from next_sequence
OutOfSequence ==
    /\ Poll
    /\ "CF_NEED_SYNC" \notin sync_state
    /\ HeadFrameOK(input)
    /\ input[2] # next_sequence

\* what the claim says of such a poll, but for the frame emitted
C3_Discard ==
    /\ input' = SubSeq(input, input[1] + 1, Len(input))
    /\ last'.popped = input[1]
    /\ last'.ret = "NULL"
    /\ last'.handled = <<>>
    /\ next_sequence' = next_sequence
    /\ Len(last'.sends) = 1

\* C3 (as amended): such a frame is popped whole (msglen bytes), no frame is
\* returned, no handler is invoked, next_sequence is unchanged, and one empty
\* frame stamped with next_sequence is emitted if the transport can reserve
\* its 5 bytes; if it cannot, nothing is emitted.
C3_Step ==
    OutOfSequence =>
       /\ C3_Discard
       /\ IF last'.avail >= 5
          THEN /\ last'.sends[1].kind = "sent"
               /\ last'.sends[1].frame = EmptyFrame(next_sequence)
          ELSE last'.sends[1].kind = "dropped"

C3_OutOfSequenceNak == [][C3_Step]_vars

\* C3 as stated: the empty frame is emitted whenever such a frame is read
C3_OriginalStep ==
    OutOfSequence =>
       /\ C3_Discard
       /\ last'.sends[1].kind = "sent"
       /\ last'.sends[1].frame = EmptyFrame(next_sequence)

C3_Original == [][C3_OriginalStep]_vars

\* a repeated frame was popped and answered with a NAK
C3_Witness ==
    /\ last.path = "seqnak"
    /\ last.popped = 7
    /\ last.msgseq # last.ns_before
    /\ last.sends # <<>>
    /\ last.sends[1].kind = "sent"
    /\ last.sends[1].frame = EmptyFrame(last.ns_before)

\* C4: between two receptions of a well-formed frame the failure path
\* commits at most one NAK.
C4_OneNak == fail_naks <= 1

\* a second run of invalid bytes was discarded without a NAK
C4_Witness ==
    /\ fail_naks = 1
    /\ last.path = "resync"
    /\ last.popped > 0
    /\ last.sends = <<>>
    /\ "CF_NEED_VALID" \in last.ss_before

\* C5: every frame returned to the dispatcher is well-formed (5 <= LEN <= 64,
\* SEQ tag 0x10, sync byte last, CRC matching); a well-formed frame of 64
\* bytes that is expected is returned, and a LEN byte of 65 takes the
\* failure path.
C5_Step ==
    (Poll /\ "CF_NEED_SYNC" \notin sync_state /\ Len(input) >= 5) =>
       /\ (input[1] = 64 /\ HeadFrameOK(input) /\ input[2] = next_sequence) =>
             /\ last'.ret = "frame"
             /\ last'.frame = SubSeq(input, 1, 64)
       /\ input[1] = 65 =>
             /\ last'.ret = "NULL"
             /\ last'.path = "resync"
             /\ "CF_NEED_VALID" \in sync_state'
             /\ Len(input') < Len(input)

C5_WireInvariants ==
    [](last.ret = "frame" => WireOK(last.frame)) /\ [][C5_Step]_vars

\* a frame of 64 bytes was returned
C5_Witness ==
    /\ last.ret = "frame"
    /\ Len(last.frame) = 64
    /\ last.handled # <<>>

\* C6: for every payload p of 0 to 59 bytes and every seq in 0..15, the frame
\* the transmission path builds around p with SEQ = 0x10|seq, at the head of
\* the input with NEED_SYNC clear and next_sequence = 0x10|seq, is returned
\* by command_get_message whole: the dispatcher gets payload p and sequence
\* seq, whatever the CRC bytes are and whether or not p contains 0x7E.
C6_Step ==
    LET p == SubSeq(input, 3, Len(input) - 3)
        n == input[2] % 16
    IN  (/\ Len(input) >= 5
         /\ Len(p) <= 59
         /\ input = Frame(p, 16 + n)
         /\ next_sequence = 16 + n
         /\ "CF_NEED_SYNC" \notin sync_state) =>
           /\ last'.ret = "frame"
           /\ Len(last'.frame) = Len(p) + 5
           /\ SubSeq(last'.frame, 3, Len(p) + 2) = p
           /\ last'.frame[2] % 16 = n
           /\ last'.msglen - 3 = Len(p) + 2

C6_FrameRoundTrip == [][C6_Step]_vars

\* a frame of 59 payload bytes holding 0x7E, with a CRC high byte whose bit 7
\* is set, was returned on a build whose char is signed
C6_Witness ==
    /\ last.ret = "frame"
    /\ char_signed
    /\ Len(last.frame) = 64
    /\ last.frame[62] >= 128
    /\ \E i \in 3 .. 61 : last.frame[i] = 126

\* the command at offset at of the frame f is one the schema has a handler for
KnownCommand(f, at) ==
    /\ f[at + 1] < command_index_size
    /\ command_index[f[at + 1] + 1] # NullParser

\* C7: no handler is invoked for a command whose argument parsing moved the
\* cursor beyond the end of the payload (msglen - 3) or met an unknown
\* parameter type; such a poll shuts the device down with "Command parser
\* error".
C7_ParserError ==
    /\ \A i \in 1 .. Len(last.handled) :
          /\ last.handled[i].next <= last.frame[1] - 3
          /\ \A j \in DOMAIN command_index[last.handled[i].cmd + 1].param_types :
                command_index[last.handled[i].cmd + 1].param_types[j]
                   \in IntTypes \cup {"PT_buffer"}
    /\ last.stop = ParserError =>
          /\ is_shutdown
          /\ shutdown_reason = ParserError

\* C8: a call of _sendf whose payload would be longer than the encoder's
\* max_size commits no frame and shuts the device down with "Message encode
\* error".
C8_EncodeError ==
    /\ send_result.kind = "sent" =>
          Len(send_result.frame) - 5 <= command_encoders[send_call.enc].max_size
    /\ send_result.kind = "error" =>
          /\ is_shutdown
          /\ shutdown_reason = EncodeError

\* the is_shutdown response that carries the shutdown reason
ShutdownResponse(reason, seq) ==
    Frame(<<command_encoders.is_shutdown.msg_id>> \o encode_int(ReasonId(reason)),
          seq)

\* C9, but for the response: in shutdown only commands flagged IN_SHUTDOWN
\* are handled; at the first other command the dispatcher makes one sendf of
\* the is_shutdown response, invokes no handler for it or for a later
\* command, and pops the msglen bytes of the frame.
C9_Guard ==
    /\ last.shut_before =>
          \A i \in 1 .. Len(last.handled) :
             "HF_IN_SHUTDOWN" \in command_index[last.handled[i].cmd + 1].flags
    /\ (last.ret = "frame" /\ last.shut_before /\ ~last.skip
          /\ last.stop = NoReason) =>
          (IF last.handled = <<>> THEN 2
           ELSE last.handled[Len(last.handled)].next) >= last.frame[1] - 3
    /\ last.skip =>
          /\ last.shut_before
          /\ last.ret = "frame"
          /\ KnownCommand(last.frame, last.stop_at)
          /\ "HF_IN_SHUTDOWN" \notin
                command_index[last.frame[last.stop_at + 1] + 1].flags
          /\ \A i \in 1 .. Len(last.handled) :
                last.handled[i].at < last.stop_at
          /\ last.popped = last.frame[1]
          /\ last.stop = NoReason
          /\ Len(last.sends) = 2

\* the output room left for the response once the ACK is committed
RoomAfterAck ==
    last.avail - (IF last.sends[1].kind = "sent" THEN 5 ELSE 0)

\* C9 (as amended): as above, and the response, stamped with next_sequence
\* and carrying the shutdown reason, is emitted if the transport can reserve
\* its 9 bytes; if it cannot, the response is dropped.
C9_ShutdownGuard ==
    /\ C9_Guard
    /\ last.skip =>
          IF RoomAfterAck >= 9
          THEN /\ last.sends[2].kind = "sent"
               /\ last.sends[2].frame =
                     ShutdownResponse(shutdown_reason, next_sequence)
          ELSE last.sends[2].kind = "dropped"

\* C9 as stated: the response is emitted whenever such a command is met
C9_Original ==
    /\ C9_Guard
    /\ last.skip =>
          /\ last.sends[2].kind = "sent"
          /\ last.sends[2].frame =
                ShutdownResponse(shutdown_reason, next_sequence)

\* in shutdown, a status command was handled, the set command after it was
\* answered with the is_shutdown response, and the frame was popped
C9_Witness ==
    /\ last.skip
    /\ last.shut_before
    /\ Len(last.handled) = 1
    /\ last.handled[1].func = "command_status"
    /\ last.sends[2].kind = "sent"
    /\ last.sends[2].frame = ShutdownResponse(shutdown_reason, next_sequence)
    /\ last.popped = last.msglen
    /\ Len(input) = 0

\* C10: a command id that is >= command_index_size or whose entry is null
\* shuts the device down with "Invalid command"; no handler is invoked for it
\* or for a later command of the frame; the commands before it, from the
\* start of the payload, were all handled.
C10_InvalidCommand ==
    /\ \A i \in 1 .. Len(last.handled) :
          /\ KnownCommand(last.frame, last.handled[i].at)
          /\ last.handled[i].func =
                command_index[last.frame[last.handled[i].at + 1] + 1].func
    /\ (last.ret = "frame" /\ last.stop_at >= 0
          /\ ~KnownCommand(last.frame, last.stop_at)) =>
          last.stop = InvalidCommand
    /\ (last.ret = "frame" /\ last.stop = NoReason /\ ~last.skip) =>
          (IF last.handled = <<>> THEN 2
           ELSE last.handled[Len(last.handled)].next) >= last.frame[1] - 3
    /\ last.stop = InvalidCommand =>
          /\ is_shutdown
          /\ shutdown_reason = InvalidCommand
          /\ ~KnownCommand(last.frame, last.stop_at)
          /\ \A i \in 1 .. Len(last.handled) :
                /\ last.handled[i].at < last.stop_at
                /\ last.handled[i].at =
                      (IF i = 1 THEN 2 ELSE last.handled[i - 1].next)
          /\ last.stop_at =
                (IF last.handled = <<>> THEN 2
                 ELSE last.handled[Len(last.handled)].next)

\* the null entry stopped a frame whose first command had been handled
C10_Witness ==
    /\ last.stop = InvalidCommand
    /\ Len(last.handled) = 1
    /\ last.frame[last.stop_at + 1] = 0
    /\ last.stop_at = 3
    /\ last.frame[1] = 8

\* C11: a call of _sendf for which the transport cannot reserve max_size + 5
\* bytes commits nothing and raises no shutdown (5 bytes for the ACK or NAK,
\* 9 for the is_shutdown response); a well-formed expected frame whose ACK is
\* dropped is returned, advances next_sequence, is dispatched and popped as
\* it is when the output has room for every response.
C11_NoOp ==
    /\ (last.sends # <<>> /\ last.avail < 5) =>
          /\ last.sends[1].kind = "dropped"
          /\ last.sends[1].frame = <<>>
          /\ last.sends[1].written = 0
    /\ (Len(last.sends) = 2 /\ RoomAfterAck < 9) =>
          /\ last.sends[2].kind = "dropped"
          /\ last.sends[2].frame = <<>>
          /\ last.sends[2].written = 0
    /\ last.stop # EncodeError

C11_Step ==
    (/\ Poll
     /\ "CF_NEED_SYNC" \notin sync_state
     /\ HeadFrameOK(input)
     /\ input[2] = next_sequence
     /\ last'.avail < 5) =>
       /\ last'.ret = "frame"
       /\ last'.frame = SubSeq(input, 1, input[1])
       /\ next_sequence' = 16 + ((input[2] + 1) % 16)
       /\ \E w \in {command_task(input, next_sequence, sync_state, is_shutdown,
                                 shutdown_reason, "ok", 2 * MESSAGE_MAX)} :
             /\ w.sends[1].kind = "sent"
             /\ last'.handled = w.handled
             /\ last'.popped = w.pop
             /\ last'.stop = w.stop
             /\ last'.skip = w.skip
             /\ next_sequence' = w.m.ns
             /\ sync_state' = w.m.ss
       /\ last'.stop = NoReason =>
             /\ last'.popped = input[1]
             /\ input' = SubSeq(input, input[1] + 1, Len(input))

C11_BackPressure == []C11_NoOp /\ [][C11_Step]_vars

\* a frame of two commands was dispatched and popped though its ACK was dropped
C11_Witness ==
    /\ last.path = "accept"
    /\ last.avail = 0
    /\ last.sends = <<[kind |-> "dropped", frame |-> <<>>, reserved |-> 5,
                       written |-> 0]>>
    /\ Len(last.handled) = 2
    /\ last.popped = last.frame[1]
    /\ next_sequence = 16 + ((last.frame[2] + 1) % 16)

\* the bytes the encoder wrote, as they lie in the buffer
VlqBytes == SubSeq(input, send_result.p + 1, send_result.p + send_result.written)

\* C12: parse_int applied to the bytes encode_int wrote for a 32-bit value v
\* returns v and advances the cursor by the number of bytes written, reading
\* nothing else; the bytes are 1 to 5, all but the last with bit 7 set.
C12_VlqRoundTrip ==
    /\ send_result.kind \in {"encoded", "parsed"} =>
          /\ send_result.written \in 1 .. 5
          /\ \A i \in 1 .. Len(VlqBytes) :
                (VlqBytes[i] >= 128) = (i < Len(VlqBytes))
    /\ send_result.kind = "parsed" =>
          /\ send_result.v = send_call.args[1].v
          /\ send_result.end = send_result.p + send_result.written
          /\ ~send_result.oob

\* 0x80000000 went through five bytes written after another byte
C12_Witness ==
    /\ send_result.kind = "parsed"
    /\ send_call.args[1].v = I32Min
    /\ send_result.v = I32Min
    /\ send_result.p = 1
    /\ send_result.end = 6
    /\ VlqBytes = <<136, 128, 128, 128, 0>>

\* the number of bytes written for v is n, and v came back
VlqCase(v, n) ==
    (send_result.kind = "parsed" /\ send_call.args[1].v = v) =>
       /\ send_result.written = n
       /\ send_result.v = v
       /\ send_result.end = send_result.p + n

\* C13 (as amended): 0x00000000, 0x0000001F, 0x00000020, 0x7FFFFFFF,
\* 0x80000000, 0xFFFFFFFF encode to 1, 1, 1, 5, 5, 1 bytes and round-trip.
C13_VlqSizes ==
    /\ VlqCase(0, 1)
    /\ VlqCase(31, 1)
    /\ VlqCase(32, 1)
    /\ VlqCase(2147483647, 5)
    /\ VlqCase(I32Min, 5)
    /\ VlqCase(-1, 1)

\* C13 as stated: 0x00000020 encodes to 2 bytes
C13_Original ==
    /\ VlqCase(0, 1)
    /\ VlqCase(31, 1)
    /\ VlqCase(32, 2)
    /\ VlqCase(2147483647, 5)
    /\ VlqCase(I32Min, 5)
    /\ VlqCase(-1, 1)

\* 0x00000020 was written as the one byte 0x20 and read back
C13_Witness ==
    /\ send_result.kind = "parsed"
    /\ send_call.args[1].v = 32
    /\ VlqBytes = <<32>>
    /\ send_result.v = 32

\* the offset of the first 0x7E of buf, counted from 1 (0: there is none)
FirstSync(buf) ==
    IF \E i \in 1 .. Len(buf) : buf[i] = 126
    THEN CHOOSE i \in 1 .. Len(buf) :
            /\ buf[i] = 126
            /\ \A j \in 1 .. i - 1 : buf[j] # 126
    ELSE 0

\* at least 5 bytes are buffered and what they start with is not a frame:
\* LEN or the SEQ tag is out of range, or LEN bytes are there and the
\* sync byte or the CRC is wrong
FrameFails(buf) ==
    /\ Len(buf) >= 5
    /\ \/ buf[1] < 5
       \/ buf[1] > 64
       \/ buf[2] \div 16 # 1
       \/ (buf[1] <= Len(buf) /\ ~WireOK(SubSeq(buf, 1, buf[1])))

\* C14: a poll that finds NEED_SYNC set and input buffered returns no frame
\* and invokes no handler whatever the input starts with: it pops the bytes
\* up to and including the first 0x7E and clears NEED_SYNC, or, if there is
\* no 0x7E, pops everything and leaves NEED_SYNC set.  NEED_SYNC becomes set
\* only in a poll whose frame check fails on input not starting with 0x7E.
C14_Step ==
    /\ (Poll /\ "CF_NEED_SYNC" \in sync_state /\ input # <<>>) =>
          /\ last'.ret = "NULL"
          /\ last'.handled = <<>>
          /\ next_sequence' = next_sequence
          /\ IF FirstSync(input) > 0
             THEN /\ input' = SubSeq(input, FirstSync(input) + 1, Len(input))
                  /\ last'.popped = FirstSync(input)
                  /\ "CF_NEED_SYNC" \notin sync_state'
             ELSE /\ input' = <<>>
                  /\ last'.popped = Len(input)
                  /\ "CF_NEED_SYNC" \in sync_state'
    /\ ("CF_NEED_SYNC" \notin sync_state /\ "CF_NEED_SYNC" \in sync_state') =>
          /\ Poll
          /\ FrameFails(input)
          /\ input[1] # 126
    /\ (Poll /\ "CF_NEED_SYNC" \notin sync_state /\ FrameFails(input)
          /\ input[1] # 126) =>
          /\ "CF_NEED_SYNC" \in sync_state' <=> FirstSync(input) = 0
          /\ last'.popped = (IF FirstSync(input) > 0 THEN FirstSync(input)
                             ELSE Len(input))

C14_Resync == [][C14_Step]_vars

\* with NEED_SYNC set, a poll popped seven buffered bytes through the 0x7E
\* that ended them, cleared NEED_SYNC and dispatched nothing
C14_Witness ==
    /\ last.path = "resync"
    /\ "CF_NEED_SYNC" \in last.ss_before
    /\ "CF_NEED_SYNC" \notin sync_state
    /\ last.popped = 7
    /\ input = <<>>
    /\ last.handled = <<>>
    /\ next_sequence = last.ns_before

\* C15: when the frame check fails on input whose first byte is 0x7E, the
\* poll pops that one byte, sends nothing, returns no frame and leaves
\* NEED_SYNC, NEED_VALID and next_sequence as they were.
C15_Step ==
    (/\ Poll
     /\ "CF_NEED_SYNC" \notin sync_state
     /\ FrameFails(input)
     /\ input[1] = 126) =>
       /\ input' = Tail(input)
       /\ last'.popped = 1
       /\ last'.sends = <<>>
       /\ last'.ret = "NULL"
       /\ last'.handled = <<>>
       /\ sync_state' = sync_state
       /\ next_sequence' = next_sequence

C15_LeadingSync == [][C15_Step]_vars

\* a 0x7E ahead of a well-formed frame was popped alone, NEED_VALID staying set
C15_Witness ==
    /\ last.path = "swallow"
    /\ last.popped = 1
    /\ last.sends = <<>>
    /\ HeadFrameOK(input)
    /\ last.ss_before = {"CF_NEED_VALID"}
    /\ sync_state = {"CF_NEED_VALID"}
    /\ next_sequence = last.ns_before

\* fewer than 5 bytes, or a header in range with fewer than LEN bytes
ShortOrPartial(buf) ==
    \/ Len(buf) < 5
    \/ /\ buf[1] >= 5
       /\ buf[1] <= 64
       /\ buf[2] \div 16 = 1
       /\ Len(buf) < buf[1]

\* C16: with NEED_SYNC clear, a poll that finds fewer than 5 bytes, or a
\* header with LEN and SEQ tag in range but fewer than LEN bytes, pops
\* nothing, sends nothing, invokes no handler and leaves next_sequence and
\* sync_state as they were.
C16_Step ==
    (Poll /\ "CF_NEED_SYNC" \notin sync_state /\ ShortOrPartial(input)) =>
       /\ input' = input
       /\ last'.popped = 0
       /\ last'.sends = <<>>
       /\ last'.ret = "NULL"
       /\ last'.handled = <<>>
       /\ sync_state' = sync_state
       /\ next_sequence' = next_sequence
       /\ is_shutdown' = is_shutdown

C16_ShortInput == [][C16_Step]_vars

\* six bytes of a frame of seven were left alone
C16_Witness ==
    /\ last.path = "partial"
    /\ Len(input) = 6
    /\ input[1] = 7
    /\ input[2] = next_sequence
    /\ last.popped = 0
    /\ last.sends = <<>>
    /\ sync_state = last.ss_before

\* the number of well-formed frames, numbered from ns on, that buf consists
\* of (-1: buf is not such a run of frames)
RECURSIVE Backlog(_, _)
Backlog(buf, ns) ==
    IF buf = <<>> THEN 0
    ELSE IF ~(HeadFrameOK(buf) /\ buf[2] = ns) THEN -1
    ELSE IF Backlog(SubSeq(buf, buf[1] + 1, Len(buf)), 16 + ((ns + 1) % 16)) < 0
    THEN -1
    ELSE 1 + Backlog(SubSeq(buf, buf[1] + 1, Len(buf)), 16 + ((ns + 1) % 16))

\* a poll that finds a backlog of frames, the device not in shutdown
DrainPoll ==
    /\ Poll
    /\ "CF_NEED_SYNC" \notin sync_state
    /\ ~is_shutdown
    /\ Backlog(input, next_sequence) >= 1

\* the poll returns, dispatches and pops the first frame of the backlog and
\* nothing more
DrainOne ==
    /\ last'.ret = "frame"
    /\ last'.frame = SubSeq(input, 1, input[1])
    /\ \A i \in 1 .. Len(last'.handled) : last'.handled[i].at < input[1] - 3
    /\ last'.popped = input[1]
    /\ input' = SubSeq(input, input[1] + 1, Len(input))
    /\ next_sequence' = 16 + ((next_sequence + 1) % 16)
    /\ "CF_NEED_SYNC" \notin sync_state'
    /\ Backlog(input', next_sequence') = Backlog(input, next_sequence) - 1

\* the frames written, the first sequence byte, and the frames accepted so far
DrainK == send_call.args[1].v
DrainStart == send_call.args[2].v
DrainDone == (next_sequence - DrainStart) % 16

\* C17 (as amended): with NEED_SYNC clear and the device not in shutdown, a
\* poll on a backlog of k >= 1 frames numbered from next_sequence on returns,
\* dispatches and pops exactly the first of them, provided no command of it
\* raises a shutdown; so while no shutdown is raised j polls leave k - j of
\* the frames, and after k polls the input is empty and next_sequence has
\* advanced by k modulo 16.
C17_Step == (DrainPoll /\ last'.stop = NoReason) => DrainOne

C17_Remaining ==
    ~is_shutdown =>
       /\ DrainDone <= DrainK
       /\ Backlog(input, next_sequence) = DrainK - DrainDone
       /\ DrainDone = DrainK => input = <<>>

C17_OriginalStep == DrainPoll => DrainOne

RetryFrame == send_call.args[1].s
RetrySeq == send_call.args[1].v

\* buf is copies of frame f back to back
RECURSIVE CopiesOf(_, _)
CopiesOf(buf, f) ==
    \/ buf = <<>>
    \/ /\ Len(buf) >= Len(f)
       /\ SubSeq(buf, 1, Len(f)) = f
       /\ CopiesOf(SubSeq(buf, Len(f) + 1, Len(buf)), f)

\* the host's frame has been accepted
C18_Accepted == acc_seq = RetrySeq

\* the frame is accepted once, and it is the host's frame; once it is
\* accepted, a poll that finds a copy discards it as out of sequence
C18_Step ==
    Poll =>
       /\ last'.ret = "frame" =>
             /\ acc_seq = -1
             /\ last'.frame = RetryFrame
             /\ last'.ns_before = RetrySeq
             /\ next_sequence' = NextSeq(RetrySeq)
       /\ (C18_Accepted /\ input # <<>>) =>
             /\ last'.path = "seqnak"
             /\ last'.popped = Len(RetryFrame)
             /\ last'.handled = <<>>
             /\ Len(last'.sends) = 1
             /\ last'.sends[1].kind = "sent" => last'.sends[1].frame
                                                 = EmptyFrame(next_sequence)

\* once the frame is accepted the input holds nothing but copies of it,
\* the first one at the head, and NEED_SYNC is clear
C18_Aligned ==
    C18_Accepted =>
       /\ CopiesOf(input, RetryFrame)
       /\ "CF_NEED_SYNC" \notin sync_state
       /\ next_sequence = NextSeq(RetrySeq)

\* C18: from any state the device can be in (NEED_SYNC and NEED_VALID set or
\* not, invalid bytes left in the input, shut down or not), if the host keeps
\* appending copies of a valid frame whose SEQ is next_sequence and the polls
\* keep running, the frame is eventually accepted and dispatched, and that
\* happens once: every later copy is popped as out of sequence, with a NAK
\* requested and no handler invoked.
C18_Recovery ==
    /\ <>C18_Accepted
    /\ []C18_Aligned
    /\ [][C18_Step]_vars

\* the host's frame is accepted by a device that had NEED_VALID set, with
\* more copies behind it
C18_Witness ==
    /\ C18_Accepted
    /\ last.ret = "frame"
    /\ last.frame = RetryFrame
    /\ "CF_NEED_VALID" \in last.ss_before
    /\ input # <<>>


\* the latest step was a poll that "Invalid command" or "Command parser
\* error" ended
Aborted == last.stop \in {InvalidCommand, ParserError}

\* after such a poll the frame was accepted (next_sequence is one past its
\* SEQ, NEED_SYNC is clear), it was not popped, and it is at the head of the
\* input
C19_Pending ==
    Aborted =>
       /\ last.ret = "frame"
       /\ last.popped = 0
       /\ Len(input) >= Len(last.frame)
       /\ SubSeq(input, 1, Len(last.frame)) = last.frame
       /\ last.frame[2] = last.ns_before
       /\ next_sequence = NextSeq(last.frame[2])
       /\ last.frame[2] # next_sequence
       /\ "CF_NEED_SYNC" \notin sync_state
       /\ is_shutdown
       /\ shutdown_reason = last.stop

\* the poll after it pops the frame as out of sequence: no frame is returned,
\* no handler runs, next_sequence stays, a NAK is requested
C19_Step ==
    (Aborted /\ Poll) =>
       /\ last'.path = "seqnak"
       /\ last'.ret = "NULL"
       /\ last'.handled = <<>>
       /\ last'.stop = NoReason
       /\ last'.popped = Len(last.frame)
       /\ input' = SubSeq(input, Len(last.frame) + 1, Len(input))
       /\ next_sequence' = next_sequence
       /\ Len(last'.sends) = 1
       /\ last'.sends[1].kind = "sent" => last'.sends[1].frame
                                           = EmptyFrame(next_sequence)

\* C19: shutdown() does not return: when "Invalid command" or "Command parser
\* error" ends a poll, the frame was accepted (next_sequence advanced) and not
\* popped, so it is still at the head of the input; the next poll finds its
\* SEQ different from next_sequence, pops it and requests a NAK, and invokes
\* no handler of it again.
C19_NoReExecution == []C19_Pending /\ [][C19_Step]_vars

\* the frame "status; no command 9; status" was popped by the poll after the
\* one that "Invalid command" ended, and its NAK was emitted
C19_Witness ==
    /\ last.path = "seqnak"
    /\ last.shut_before
    /\ shutdown_reason = InvalidCommand
    /\ last.msgseq = acc_seq
    /\ last.popped = 8
    /\ last.sends[1].kind = "sent"
    /\ input = <<>>


\* C20: for every call of _sendf that obtains its reservation of
\* max_size + 5 bytes and does not shut down, every byte written lies inside
\* the reserved region, the number of bytes committed is at most
\* max_size + 5, and the LEN byte of the frame is the number of bytes
\* committed.
C20_OutputBounds ==
    send_result.kind = "sent" =>
       /\ send_result.reserved
             = command_encoders[send_call.enc].max_size + MESSAGE_MIN
       /\ send_result.written <= send_result.reserved
       /\ Len(send_result.frame) <= send_result.reserved
       /\ send_result.frame[1] = Len(send_result.frame)

============================================================================
